---- MODULE Spec2Model ----
(***************************************************************************)
(* web2epub: link discovery (collectors.CollectLinks), concurrent page     *)
(* extraction (collectors.CollectPages) and ordering and assembly (main).  *)
(*                                                                         *)
(* Strings are sequences of tokens: a token stands for a run of characters *)
(* ("/illustrations", ".jpg"), the empty string is <<>>, and the string    *)
(* functions of the Go library are computed on these sequences.            *)
(***************************************************************************)
EXTENDS Integers, Sequences, FiniteSets, TLC

VARIABLES
    phase,         \* where main is
    exit,          \* how the process ended, "running" until it does
    config,        \* the profile of the run
    sameHostOnly,  \* the same-host flag
    startPage,     \* the nodes the link selector matches on the start page
    links,         \* what CollectLinks returned
    task,          \* per link: where its request and its callback are
    pages,         \* the URL-keyed page mapping of CollectPages
    writers,       \* the callbacks inside the insertion into pages
    raced,         \* the callbacks whose insertion overlapped another one
    overtaken,     \* a page was inserted after the page of a later link
    sortedPages,   \* main's dense array, a URL of pages or <<>> (nil) per slot
    idx,           \* pages of sortedPages already walked
    SectionLink,   \* the anchor: the index in book of the last section, 0 for ""
    book,          \* the writer's sections, each with its children
    handed,        \* the pages in the order they were handed to the writer
    coverImg,      \* the -cover flag, <<>> when it is not given
    cover,         \* the cover of the book: "none" or "set"
    module,        \* the -module flag
    author,        \* an author text, its replacement table and the results
    visits,        \* the requests linkCollector.Visit has sent
    bookTitle,     \* the title CollectLinks returned
    err            \* the error CollectLinks returned, "nil" for none

vars == <<phase, exit, config, sameHostOnly, startPage, links,
          task, pages, writers, raced, overtaken,
          sortedPages, idx, SectionLink, book, handed, coverImg, cover,
          module, author, visits, bookTitle, err>>

linkVars == <<config, sameHostOnly, startPage, links>>
collectVars == <<task, pages, writers, raced, overtaken>>
bookVars == <<sortedPages, idx, SectionLink, book, handed>>
coverVars == <<coverImg, cover>>
restVars == <<module, author, visits, bookTitle, err>>

----------------------------------------------------------------------------
(* Bounds of the model.                                                    *)

\* nodes matching the link selector on a start page of the discovery runs
MaxNodes == 3
\* links on the start page of a whole run
MaxLinks == 3
\* links on the start page of a whole run whose documents hold images
MaxImgLinks == 2
\* links on the start page of a whole run with the -cover flag
MaxCoverLinks == 2
\* characters of an author text
MaxAuthorLen == 4
MaxPieces == 3
\* rewrite rules of a profile that is not built in
MaxRules == 2
\* image nodes of all the documents of a run
MaxRunImgs == 2
\* fetches of a run that end on another URL than the link's
MaxRedirects == 1
\* length of a start page that repeats one link
LongPage == 11

----------------------------------------------------------------------------
(* strings                                                                 *)

\* strings.Contains(s, substr)
Contains(s, substr) ==
    \E i \in 1..(Len(s) - Len(substr) + 1) :
        SubSeq(s, i, i + Len(substr) - 1) = substr

RECURSIVE Interleave(_, _)
\* strings.ReplaceAll(s, "", new): new before every token and at the end
Interleave(s, new) ==
    IF s = <<>> THEN new
    ELSE new \o <<Head(s)>> \o Interleave(Tail(s), new)

RECURSIVE ReplaceFrom(_, _, _)
ReplaceFrom(s, old, new) ==
    IF Len(s) < Len(old) THEN s
    ELSE IF SubSeq(s, 1, Len(old)) = old
         THEN new \o ReplaceFrom(SubSeq(s, Len(old) + 1, Len(s)), old, new)
         ELSE <<Head(s)>> \o ReplaceFrom(Tail(s), old, new)

\* strings.ReplaceAll(s, old, new): the non-overlapping matches, left to right
ReplaceAll(s, old, new) ==
    IF old = <<>> THEN Interleave(s, new) ELSE ReplaceFrom(s, old, new)

\* strings.ToLower on an extension token
ToLower(tok) ==
    CASE tok = ".JPG" -> ".jpg"
      [] tok = ".PDF" -> ".pdf"
      [] OTHER -> tok

----------------------------------------------------------------------------
(* URLs: <<host, path element, ..., extension>>; a relative reference has  *)
(* no host token.                                                          *)

Hosts == {"h.org", "x.org"}
ExtTokens == {".jpg", ".JPG", ".pdf", ".PDF", ".html"}

\* the start URL of the run, and the host url.Parse(startURL).Hostname() gives
StartHost == "h.org"

\* (*url.URL).IsAbs
IsAbs(href) == Len(href) > 0 /\ href[1] \in Hosts

\* e.Request.URL.ResolveReference(linkURL) followed by String()
ResolveReference(href) == <<StartHost>> \o href

\* (*url.URL).Hostname
Hostname(u) == IF IsAbs(u) THEN u[1] ELSE ""

\* path.Ext(linkURL.Path): the extension of the last path element
PathExt(u) == IF Len(u) > 0 /\ u[Len(u)] \in ExtTokens THEN u[Len(u)] ELSE ""

----------------------------------------------------------------------------
(* Site profiles (CollectorConfig)                                         *)

SkipExtensions == {".jpg", ".jpeg", ".png", ".gif", ".pdf", ".zip", ".mp3", ".mp4"}

GetGeneralConferenceConfig ==
    [name |-> "conference", LinkFilter |-> <<>>, LinkReplace |-> <<>>,
     SubSectionThreshold |-> 100, FallbackToBody |-> TRUE,
     Parallelism |-> 6, SkipExtensions |-> SkipExtensions]

GetScripturesConfig ==
    [name |-> "scriptures", LinkFilter |-> <<"/illustrations">>, LinkReplace |-> <<>>,
     SubSectionThreshold |-> 50, FallbackToBody |-> TRUE,
     Parallelism |-> 6, SkipExtensions |-> SkipExtensions]

GetEnsignConfig ==
    [name |-> "ensign", LinkFilter |-> <<>>, LinkReplace |-> <<>>,
     SubSectionThreshold |-> 200, FallbackToBody |-> TRUE,
     Parallelism |-> 4, SkipExtensions |-> SkipExtensions]

BuiltIn == {GetGeneralConferenceConfig, GetScripturesConfig, GetEnsignConfig}

\* a module name is a sequence of runs of letters, each in lower or upper case
Word(ts) == [k \in 1..Len(ts) |-> [text |-> ts[k], upper |-> FALSE]]

Casings(ts) ==
    {[k \in 1..Len(ts) |-> [text |-> ts[k], upper |-> u[k]]] :
        u \in [1..Len(ts) -> BOOLEAN]}

\* the name as it was typed
AsTyped(name) == name

\* strings.ToLower(module)
ToLowerName(name) == [k \in 1..Len(name) |-> [name[k] EXCEPT !.upper = FALSE]]

\* the values of the -module flag: the names of the switch and others
ModuleWords ==
    {<<"con", "ference">>, <<"general-", "con", "ference">>, <<"scrip", "tures">>,
     <<"en", "sign">>, <<"bi", "ble">>, <<"con">>, <<>>}
ModuleNames == UNION {Casings(w) : w \in ModuleWords}

\* the modules the error message lists
AvailableModules ==
    {Word(<<"con", "ference">>), Word(<<"scrip", "tures">>), Word(<<"en", "sign">>)}

NoConfig == [name |-> "nil"]

\* GetConfigByModule: the profile and the error it returns
GetConfigByModule(name) ==
    LET m == ToLowerName(name) IN
    CASE m \in {Word(<<"con", "ference">>), Word(<<"general-", "con", "ference">>)} ->
            [config |-> GetGeneralConferenceConfig, err |-> "nil"]
      [] m = Word(<<"scrip", "tures">>) ->
            [config |-> GetScripturesConfig, err |-> "nil"]
      [] m = Word(<<"en", "sign">>) ->
            [config |-> GetEnsignConfig, err |-> "nil"]
      [] OTHER ->
            [config |-> NoConfig, err |-> "unknown module"]

\* link-rewrite rules a profile can declare (config.LinkReplace)
Rules ==
    {[OldText |-> <<"/_contents">>, NewText |-> <<>>, IsSubSection |-> TRUE],
     [OldText |-> <<"/a">>, NewText |-> <<"/illustrations">>, IsSubSection |-> FALSE],
     [OldText |-> <<"/illustrations">>, NewText |-> <<"/a">>, IsSubSection |-> TRUE]}

RuleLists == UNION {[1..n -> Rules] : n \in 0..MaxRules}

\* the profiles that are not built in: every rule list, with and without a filter
CustomProfiles ==
    {[name |-> "custom", LinkFilter |-> f, LinkReplace |-> r,
      SubSectionThreshold |-> 50, FallbackToBody |-> fb,
      Parallelism |-> 1, SkipExtensions |-> SkipExtensions] :
        f \in {<<>>, <<"/illustrations">>}, r \in RuleLists, fb \in {TRUE}}

Profiles == BuiltIn \cup CustomProfiles

----------------------------------------------------------------------------
(* Link discovery: CollectLinks                                            *)

NoHref == <<"nohref">>

\* the href attributes found on start pages
Hrefs ==
    {<<"h.org", "/a">>, <<"h.org", "/b">>, <<"h.org", "/_contents", "/a">>,
     <<"h.org", "/illustrations", "/a">>, <<"/a">>, <<"x.org", "/a">>,
     <<"h.org", "/a", ".JPG">>}

Nodes == Hrefs \cup {NoHref}

ShortPages == UNION {[1..n -> Nodes] : n \in 0..MaxNodes}
LongPages == {[i \in 1..n |-> <<"h.org", "/a">>] : n \in (LongPage - 1)..LongPage}
Pages == ShortPages \cup LongPages

\* the link string after "If the link is relative, make it absolute"
Absolute(href) == IF IsAbs(href) THEN href ELSE ResolveReference(href)

\* the host test without the flag
SkippedWhenExternal(href, sameHost) ==
    Hostname(Absolute(href)) # StartHost

\* "Skip external links if sameHostOnly is true"
ExternalSkipped(href, sameHost) ==
    sameHost /\ Hostname(Absolute(href)) # StartHost

\* "Skip configured file extensions"
ExtensionSkipped(href, cfg) ==
    ToLower(PathExt(Absolute(href))) \in cfg.SkipExtensions

RECURSIVE ApplyRules(_, _, _, _)
\* the loop over config.LinkReplace: oldLink is the link before the first rule
ApplyRules(link, oldLink, isSub, rules) ==
    IF rules = <<>> THEN [URL |-> link, IsSubSection |-> isSub]
    ELSE LET r == Head(rules)
             l2 == ReplaceAll(link, r.OldText, r.NewText)
         IN ApplyRules(l2, oldLink,
                       isSub \/ (oldLink # l2 /\ r.IsSubSection), Tail(rules))

Rewrite(link, cfg) == ApplyRules(link, link, FALSE, cfg.LinkReplace)

\* the filter test without its negation
PassesFilterInverted(link, cfg) == Contains(link, cfg.LinkFilter)

\* if !strings.Contains(link, config.LinkFilter)
PassesFilter(link, cfg) == ~Contains(link, cfg.LinkFilter)

\* a node that reaches the rewrite rules: it has an href and is not skipped
Reaches(node, cfg, sameHost) ==
    /\ node # NoHref
    /\ ~ExternalSkipped(node, sameHost)
    /\ ~ExtensionSkipped(node, cfg)

RECURSIVE EachLink(_, _, _, _)
\* e.DOM.Find(config.LinkSelector).Each: the links appended, in document order
EachLink(nodes, acc, cfg, sameHost) ==
    IF nodes = <<>> THEN acc
    ELSE LET node == Head(nodes)
             rw == Rewrite(Absolute(node), cfg)
         IN IF Reaches(node, cfg, sameHost) /\ PassesFilter(rw.URL, cfg)
            THEN EachLink(Tail(nodes),
                          Append(acc, [URL |-> rw.URL, Order |-> Len(acc),
                                       IsSubSection |-> rw.IsSubSection]),
                          cfg, sameHost)
            ELSE EachLink(Tail(nodes), acc, cfg, sameHost)

\* "Truncate to 10 links for testing"
TestLimit == 10

Truncate(ls) == SelectSeq(ls, LAMBDA l : l.Order < TestLimit)

CollectLinks(nodes, cfg, sameHost) == Truncate(EachLink(nodes, <<>>, cfg, sameHost))


----------------------------------------------------------------------------
(* Page extraction: the documents the fetches return                       *)

\* the src attributes of image nodes: a remote URL, and a relative reference
\* that http.Get cannot fetch
ImgSrcs == {"http://r1", "/rel.png"}

NoFile == <<0, 0>>

\* an image node as the document holds it
ImgNode(src) == [orig |-> src, kind |-> "remote", file |-> NoFile]

ImgLists(n) == UNION {[1..k -> {ImgNode(s) : s \in ImgSrcs}] : k \in 0..n}

SrcLists(n) == UNION {[1..k -> ImgSrcs] : k \in 0..n}

\* the image nodes of a fetched document: those of the body the callback
\* takes (the content subtree, or the document's body when nothing matches
\* the content selector) outside the elements a removal selector matches,
\* those of the body inside such elements, and those of the document outside
\* the content subtree
NoImages == [imgs |-> <<>>, removed |-> <<>>, outside |-> <<>>]

BodyDocs(n) == {[NoImages EXCEPT !.imgs = b] : b \in ImgLists(n)}

Docs(n) ==
    {d \in [imgs : ImgLists(n), removed : SrcLists(n), outside : SrcLists(n)] :
        Len(d.imgs) + Len(d.removed) + Len(d.outside) <= n}

\* e.DOM.Find("img") after the removals: the image nodes left in the document
FoundInDocument(doc) ==
    [k \in 1..Len(doc.imgs) |-> [src |-> doc.imgs[k].orig, part |-> "body"]]
    \o [k \in 1..Len(doc.outside) |-> [src |-> doc.outside[k], part |-> "outside"]]

\* len(article.Text()) of the cleaned body, around the profile's threshold
TextLens(cfg) == {cfg.SubSectionThreshold - 1, cfg.SubSectionThreshold}

\* the URL a redirected request ends on
Moved(u) == u \o <<"/moved">>

\* the selected title without the test for an empty text
TitleAsSelected(title, pageOrder) == title

\* title := e.DOM.Find(config.TitleSelector).Text(), and "Page %d" of
\* pageOrder + 1 when it is empty
PageTitle(title, pageOrder) ==
    IF title = "" THEN "Page " \o ToString(pageOrder + 1) ELSE title

NoEntry ==
    [URL |-> <<>>, Order |-> 0, IsSubSection |-> FALSE,
     Content |-> [textLen |-> 0, imgs |-> <<>>, downloaded |-> <<>>], link |-> 0,
     Title |-> ""]

\* the order of the matching link, and the number of links when none matches
OrderOrCount(ls, pageURL) ==
    LET M == {j \in 1..Len(ls) : ls[j].URL = pageURL}
    IN IF M = {} THEN Len(ls)
       ELSE ls[CHOOSE j \in M : \A k \in M : j <= k].Order

RECURSIVE OrderOf(_, _)
\* "Find the order of this page in our links list": 0 when no link matches
OrderOf(ls, pageURL) ==
    IF ls = <<>> THEN 0
    ELSE IF Head(ls).URL = pageURL THEN Head(ls).Order
         ELSE OrderOf(Tail(ls), pageURL)

\* the comparison with <= in the place of <
IsSubSectionAtOrBelow(contentLength, cfg) ==
    ~(contentLength <= cfg.SubSectionThreshold)

\* isSubSection := true; if contentLength < config.SubSectionThreshold { false }
IsSubSectionOf(contentLength, cfg) ==
    ~(contentLength < cfg.SubSectionThreshold)

\* downloadImage: the file it creates has a random name, one per call
LocalPath(i, k) == <<i, k>>

\* every downloaded image replaced by the path of the last one
ReplaceWithLast(imgs, ok, i) ==
    [k \in 1..Len(imgs) |->
        IF ok[k]
        THEN [imgs[k] EXCEPT !.kind = "local", !.file = LocalPath(i, Len(imgs))]
        ELSE imgs[k]]

\* e.DOM.Find("img").Each: a downloaded image is replaced by <img src=outputPath>,
\* one whose download failed is left as it is
ReplaceImages(imgs, ok, i) ==
    [k \in 1..Len(imgs) |->
        IF ok[k]
        THEN [imgs[k] EXCEPT !.kind = "local", !.file = LocalPath(i, k)]
        ELSE imgs[k]]

\* the outcomes of downloadImage on the images of a document
Downloads(imgs) ==
    {ok \in [1..Len(imgs) -> BOOLEAN] :
        \A k \in 1..Len(imgs) : imgs[k].orig = "/rel.png" => ~ok[k]}

Terminal == {"rejected", "failed", "dropped", "stored", "lost"}

----------------------------------------------------------------------------
(* Author processing: texts are sequences of characters                    *)

RECURSIVE TrimLeft(_)
TrimLeft(s) == IF s # <<>> /\ Head(s) = " " THEN TrimLeft(Tail(s)) ELSE s

RECURSIVE TrimRight(_)
TrimRight(s) ==
    IF s # <<>> /\ s[Len(s)] = " " THEN TrimRight(SubSeq(s, 1, Len(s) - 1)) ELSE s

\* one space at most taken from each end
TrimSpaceOnce(s) ==
    LET l == IF s # <<>> /\ Head(s) = " " THEN Tail(s) ELSE s
    IN IF l # <<>> /\ l[Len(l)] = " " THEN SubSeq(l, 1, Len(l) - 1) ELSE l

\* strings.TrimSpace(author)
TrimSpace(s) == TrimRight(TrimLeft(s))

\* "for old, new := range config.AuthorReplacements": the orders in which the
\* map can be iterated
IterationOrders(table) ==
    LET n == Cardinality(DOMAIN table)
    IN {o \in [1..n -> DOMAIN table] : \A old \in DOMAIN table : \E k \in 1..n : o[k] = old}

RECURSIVE ReplaceEach(_, _, _)
\* author = strings.ReplaceAll(author, old, new) for each pair, in the order given
ReplaceEach(a, table, order) ==
    IF order = <<>> THEN a
    ELSE ReplaceEach(ReplaceAll(a, Head(order), table[Head(order)]), table, Tail(order))

\* "Apply configured author replacements", then the trim
ApplyReplacements(a, table, order) == TrimSpace(ReplaceEach(a, table, order))

\* the characters of author texts, and the pairs of replacement tables
Chars == {"B", "y", " "}
OldTexts == {<<"B", "y">>, <<"y">>}
NewTexts == {<<>>, <<"y">>}
AuthorTexts == UNION {[1..n -> Chars] : n \in 0..MaxAuthorLen}
AuthorTables == UNION {[D -> NewTexts] : D \in SUBSET OldTexts}

NoAuthor == [table |-> <<>>, text |-> <<>>, out |-> <<>>]

\* the replacement table applied to the text, and to its own result
ApplyAuthor ==
    /\ phase = "author"
    /\ Len(author.out) < 2
    /\ \E order \in IterationOrders(author.table) :
        LET a == IF author.out = <<>> THEN author.text ELSE author.out[Len(author.out)]
        IN author' = [author EXCEPT
                         !.out = Append(@, ApplyReplacements(a, author.table, order))]
    /\ UNCHANGED <<phase, exit, module, visits, bookTitle, err>>
    /\ UNCHANGED linkVars
    /\ UNCHANGED collectVars
    /\ UNCHANGED bookVars
    /\ UNCHANGED coverVars

\* config.AuthorReplacements of the built-in profiles
AuthorReplacements(cfg) ==
    CASE cfg.name = "conference" ->
            [old \in {<<"B", "y">>,
                      <<"P", "r", "e", "s", "i", "d", "e", "n", "t">>,
                      <<"E", "l", "d", "e", "r">>,
                      <<"S", "i", "s", "t", "e", "r">>,
                      <<"B", "r", "o", "t", "h", "e", "r">>} |-> <<>>]
      [] cfg.name = "ensign" -> [old \in {<<"B", "y">>} |-> <<>>]
      [] OTHER -> <<>>

\* config.DefaultAuthor of the built-in profiles
DefaultAuthor(cfg) ==
    CASE cfg.name = "conference" -> <<"General Authority">>
      [] cfg.name = "ensign" -> <<"Church Author">>
      [] OTHER -> <<>>

\* the pieces the texts of the author node are made of
Pieces == {<<"B", "y">>, <<"E", "l", "d">>, <<"e", "r">>, <<" ">>, <<"S">>}

RECURSIVE Flatten(_)
Flatten(ps) == IF ps = <<>> THEN <<>> ELSE Head(ps) \o Flatten(Tail(ps))

NodeTexts == {Flatten(ps) : ps \in UNION {[1..n -> Pieces] : n \in 0..MaxPieces}}

\* "Extract and process author": the author of one run of the callback on the
\* text of the author node, with the table iterated in one of its orders
ExtractAuthor ==
    /\ phase = "extract author"
    /\ Len(author.out) < 2
    /\ \E order \in IterationOrders(author.table) :
        author' = [author EXCEPT
                     !.out = Append(@, IF author.text = <<>>
                                       THEN DefaultAuthor(config)
                                       ELSE ApplyReplacements(author.text,
                                                              author.table, order))]
    /\ UNCHANGED <<phase, exit, module, visits, bookTitle, err>>
    /\ UNCHANGED linkVars
    /\ UNCHANGED collectVars
    /\ UNCHANGED bookVars
    /\ UNCHANGED coverVars

----------------------------------------------------------------------------
(* Page extraction: the run                                                *)

RunImgs == LET RECURSIVE Sum(_)
               Sum(i) == IF i = 0 THEN 0
                         ELSE Len(task[i].entry.Content.imgs) + Sum(i - 1)
           IN Sum(Len(task))

\* the image nodes of the documents fetched so far, wherever they stand
DocImgs == LET RECURSIVE Sum(_)
               Sum(i) == IF i = 0 THEN 0
                         ELSE Len(task[i].doc.imgs) + Len(task[i].doc.removed)
                              + Len(task[i].doc.outside) + Sum(i - 1)
           IN Sum(Len(task))

Redirects ==
    Cardinality({i \in 1..Len(task) :
        task[i].pc \in {"extracted", "writing", "stored", "lost", "dropped"}
        /\ task[i].entry.URL # links[i].URL})

----------------------------------------------------------------------------
(* State                                                                   *)

InitFrom(P, SH, CV) ==
    /\ phase = "discover"
    /\ exit = "running"
    /\ config \in P
    /\ sameHostOnly \in SH
    /\ startPage = <<>>
    /\ links = <<>>
    /\ task = <<>>
    /\ pages = <<>>
    /\ writers = {}
    /\ raced = {}
    /\ overtaken = FALSE
    /\ sortedPages = <<>>
    /\ idx = 0
    /\ SectionLink = 0
    /\ book = <<>>
    /\ handed = <<>>
    /\ coverImg \in CV
    /\ cover = "none"
    /\ module = config.name
    /\ author = NoAuthor
    /\ visits = 0
    /\ bookTitle = ""
    /\ err = "nil"

\* main: config, err := collectors.GetConfigByModule(*module), and log.Fatal
\* on an error
Configure ==
    /\ phase = "start"
    /\ LET r == GetConfigByModule(module) IN
        IF r.err # "nil"
        THEN /\ phase' = "exited"
             /\ exit' = "fatal: module configuration error: " \o r.err
             /\ UNCHANGED config
        ELSE /\ phase' = "discover"
             /\ config' = r.config
             /\ UNCHANGED exit
    /\ UNCHANGED <<sameHostOnly, startPage, links>>
    /\ UNCHANGED collectVars
    /\ UNCHANGED bookVars
    /\ UNCHANGED coverVars
    /\ UNCHANGED restVars

\* the texts the title selector finds on a start page, "" when it finds none
NoTitles == {""}
PageTitles == {"", "T"}

\* bookTitle := "Default Title", and the selected text when it is not empty
BookTitle(title) == IF title # "" THEN title ELSE "Default Title"

\* the start URLs that fail: url.Parse refuses the first, the request of the
\* second fails
FailingURLs == {"unparsable", "unreachable"}

Parses(startURL) == startURL # "unparsable"

\* main: links, bookTitle, err := collectors.CollectLinks(...), the visit succeeds
DiscoverFrom(P, Titles) ==
    /\ phase = "discover"
    /\ \E nodes \in P, title \in Titles :
        /\ startPage' = nodes
        /\ links' = CollectLinks(nodes, config, sameHostOnly)
        /\ bookTitle' = BookTitle(title)
    /\ visits' = visits + 1
    /\ phase' = "linked"
    /\ UNCHANGED <<exit, config, sameHostOnly, err>>
    /\ UNCHANGED <<module, author>>
    /\ UNCHANGED coverVars
    /\ UNCHANGED collectVars
    /\ UNCHANGED bookVars

\* the failed visit is sent again
DiscoverRetries ==
    /\ phase = "discover"
    /\ visits' = visits + 1
    /\ UNCHANGED <<phase, exit, bookTitle, err>>
    /\ UNCHANGED <<module, author>>
    /\ UNCHANGED linkVars
    /\ UNCHANGED coverVars
    /\ UNCHANGED collectVars
    /\ UNCHANGED bookVars

\* url.Parse or linkCollector.Visit fails: CollectLinks returns nil, "" and an
\* error, main calls log.Fatal
DiscoverFails ==
    /\ phase = "discover"
    /\ \E startURL \in FailingURLs :
        IF ~Parses(startURL)
        THEN /\ err' = "invalid URL"
             /\ UNCHANGED visits
        ELSE /\ err' = "failed to visit starting URL"
             /\ visits' = visits + 1
    /\ phase' = "exited"
    /\ exit' = "fatal: link collection failed"
    /\ UNCHANGED bookTitle
    /\ UNCHANGED <<module, author>>
    /\ UNCHANGED linkVars
    /\ UNCHANGED coverVars
    /\ UNCHANGED collectVars
    /\ UNCHANGED bookVars

----------------------------------------------------------------------------
(* Page extraction: CollectPages                                           *)

\* CollectPages up to the end of its Visit loop: every link is queued, but a
\* URL already visited is refused by Visit ("Error queuing")
StartCollect ==
    /\ phase = "linked"
    /\ phase' = "collect"
    /\ task' = [i \in 1..Len(links) |->
                  [pc |-> IF \E j \in 1..(i - 1) : links[j].URL = links[i].URL
                          THEN "rejected" ELSE "queued",
                   entry |-> NoEntry, doc |-> NoImages, calls |-> <<>>,
                   selected |-> ""]]
    /\ UNCHANGED <<exit, pages, writers, raced, overtaken>>
    /\ UNCHANGED linkVars
    /\ UNCHANGED coverVars
    /\ UNCHANGED restVars
    /\ UNCHANGED bookVars

\* the request of link i takes one of the config.Parallelism slots
StartFetch(i) ==
    /\ phase = "collect"
    /\ task[i].pc = "queued"
    /\ Cardinality({j \in 1..Len(task) : task[j].pc = "fetching"}) < config.Parallelism
    /\ task' = [task EXCEPT ![i].pc = "fetching"]
    /\ UNCHANGED <<phase, exit, pages, writers, raced, overtaken>>
    /\ UNCHANGED linkVars
    /\ UNCHANGED coverVars
    /\ UNCHANGED restVars
    /\ UNCHANGED bookVars

\* the request fails: OnError logs it, no callback runs for the link
FetchFails(i) ==
    /\ phase = "collect"
    /\ task[i].pc = "fetching"
    /\ task' = [task EXCEPT ![i].pc = "failed"]
    /\ UNCHANGED <<phase, exit, pages, writers, raced, overtaken>>
    /\ UNCHANGED linkVars
    /\ UNCHANGED coverVars
    /\ UNCHANGED restVars
    /\ UNCHANGED bookVars

\* the OnHTML callback of link i up to "Store the page content": the order, the
\* body (or the drop when nothing matches and the fallback is off), the
\* subsection flag and the image downloads
OnHTML(i, URLs, Lengths, Documents, Titles) ==
    /\ phase = "collect"
    /\ task[i].pc = "fetching"
    /\ \E pageURL \in URLs,
          hasContent \in BOOLEAN,
          contentLength \in Lengths,
          title \in Titles,
          doc \in Documents :
        /\ hasContent \/ doc.outside = <<>>
        /\ (hasContent \/ config.FallbackToBody) \/ title = ""
        /\ LET imgs == doc.imgs IN
           IF ~hasContent /\ ~config.FallbackToBody
           THEN \* the callback returns before it looks for image nodes
                /\ doc = NoImages
                /\ task' = [task EXCEPT ![i] =
                        [pc |-> "dropped", entry |-> [NoEntry EXCEPT !.URL = pageURL],
                         doc |-> NoImages, calls |-> <<>>, selected |-> ""]]
           ELSE \E ok \in Downloads(imgs) :
               task' = [task EXCEPT ![i] =
                   [pc |-> "extracted",
                    doc |-> doc,
                    calls |-> FoundInDocument(doc),
                    selected |-> title,
                    entry |-> [URL |-> pageURL,
                               Order |-> OrderOf(links, pageURL),
                               IsSubSection |-> IsSubSectionOf(contentLength, config),
                               Content |-> [textLen |-> contentLength,
                                            imgs |-> ReplaceImages(imgs, ok, i),
                                            downloaded |-> ok],
                               link |-> i,
                               Title |-> PageTitle(title, OrderOf(links, pageURL))]]]
    /\ UNCHANGED <<phase, exit, pages, writers, raced, overtaken>>
    /\ UNCHANGED linkVars
    /\ UNCHANGED coverVars
    /\ UNCHANGED restVars
    /\ UNCHANGED bookVars

\* the documents of a run without images: e.Request.URL is the link's URL, or
\* another one after a redirect
OnText(i) ==
    OnHTML(i, {links[i].URL} \cup
              (IF Redirects < MaxRedirects THEN {Moved(links[i].URL)} ELSE {}),
           TextLens(config), {NoImages}, NoTitles)

\* the documents of a run whose pages have a title or none, each with a text
\* of the threshold's length
OnTitled(i) ==
    OnHTML(i, {links[i].URL} \cup
              (IF Redirects < MaxRedirects THEN {Moved(links[i].URL)} ELSE {}),
           {config.SubSectionThreshold}, {NoImages}, PageTitles)

\* the documents of a run with images, none of them redirected and each with
\* a text of the threshold's length
OnImages(i) ==
    OnHTML(i, {links[i].URL}, {config.SubSectionThreshold},
           BodyDocs(MaxRunImgs - RunImgs), NoTitles)

\* the documents of a run with image nodes inside and outside the body
OnDocs(i) ==
    OnHTML(i, {links[i].URL}, {config.SubSectionThreshold},
           Docs(MaxRunImgs - DocImgs), NoTitles)

\* pages[pageURL] = &PageContent{...} begins; no lock is taken, so the insertion
\* may overlap the insertion of another callback
BeginWrite(i) ==
    /\ phase = "collect"
    /\ task[i].pc = "extracted"
    /\ task' = [task EXCEPT ![i].pc = "writing"]
    /\ writers' = writers \cup {i}
    /\ raced' = IF writers # {} THEN raced \cup writers \cup {i} ELSE raced
    /\ UNCHANGED <<phase, exit, pages, overtaken>>
    /\ UNCHANGED linkVars
    /\ UNCHANGED coverVars
    /\ UNCHANGED restVars
    /\ UNCHANGED bookVars

\* the insertion ends with the entry in the map (last write wins on a URL)
EndWrite(i) ==
    /\ phase = "collect"
    /\ task[i].pc = "writing"
    /\ task' = [task EXCEPT ![i].pc = "stored"]
    /\ writers' = writers \ {i}
    /\ pages' = (task[i].entry.URL :> task[i].entry) @@ pages
    /\ overtaken' = (overtaken \/ \E u \in DOMAIN pages : pages[u].link > i)
    /\ raced' = raced \ {i}
    /\ UNCHANGED <<phase, exit>>
    /\ UNCHANGED linkVars
    /\ UNCHANGED coverVars
    /\ UNCHANGED restVars
    /\ UNCHANGED bookVars

\* an insertion that overlapped another one is a data race on a Go map: the
\* entry may also be lost
RaceLosesEntry(i) ==
    /\ phase = "collect"
    /\ task[i].pc = "writing"
    /\ i \in raced
    /\ task' = [task EXCEPT ![i].pc = "lost"]
    /\ writers' = writers \ {i}
    /\ raced' = raced \ {i}
    /\ UNCHANGED <<phase, exit, pages, overtaken>>
    /\ UNCHANGED linkVars
    /\ UNCHANGED coverVars
    /\ UNCHANGED restVars
    /\ UNCHANGED bookVars

\* or the runtime detects it: "fatal error: concurrent map writes"
RaceIsFatal(i) ==
    /\ phase = "collect"
    /\ task[i].pc = "writing"
    /\ i \in raced
    /\ phase' = "exited"
    /\ exit' = "fatal error: concurrent map writes"
    /\ UNCHANGED collectVars
    /\ UNCHANGED linkVars
    /\ UNCHANGED coverVars
    /\ UNCHANGED restVars
    /\ UNCHANGED bookVars

\* CollectPages returns without the wait
ReturnsWithoutWait ==
    /\ phase = "collect"
    /\ phase' = "collected"
    /\ UNCHANGED exit
    /\ UNCHANGED collectVars
    /\ UNCHANGED linkVars
    /\ UNCHANGED coverVars
    /\ UNCHANGED restVars
    /\ UNCHANGED bookVars

\* pageCollector.Wait() returns when every request and callback has ended
CollectPagesReturns ==
    /\ phase = "collect"
    /\ \A i \in 1..Len(task) : task[i].pc \in Terminal
    /\ phase' = "collected"
    /\ UNCHANGED exit
    /\ UNCHANGED collectVars
    /\ UNCHANGED linkVars
    /\ UNCHANGED coverVars
    /\ UNCHANGED restVars
    /\ UNCHANGED bookVars

----------------------------------------------------------------------------
(* Ordering and assembly: main                                             *)

\* the pages in the iteration order of the map, whatever their Order
IterationOrder(pgs) ==
    LET n == Cardinality(DOMAIN pgs)
    IN {s \in [1..n -> DOMAIN pgs] : \A u \in DOMAIN pgs : \E k \in 1..n : s[k] = u}

\* sortedPages[page.Order] = page over the map, in any iteration order: a slot
\* no page names stays nil, a slot two pages name holds either
SortedChoices(pgs) ==
    LET n == Cardinality(DOMAIN pgs)
        Slot(k) == {u \in DOMAIN pgs : pgs[u].Order = k - 1}
    IN {s \in [1..n -> DOMAIN pgs \cup {<<>>}] :
          \A k \in 1..n : s[k] \in (IF Slot(k) = {} THEN {<<>>} ELSE Slot(k))}

\* "Sort pages by order"
SortPages ==
    /\ phase = "collected"
    /\ IF \E u \in DOMAIN pages : pages[u].Order >= Cardinality(DOMAIN pages)
       THEN /\ phase' = "exited"
            /\ exit' = "panic: index out of range"
            /\ UNCHANGED sortedPages
       ELSE /\ phase' = "assemble"
            /\ sortedPages' \in SortedChoices(pages)
            /\ UNCHANGED exit
    /\ UNCHANGED <<idx, SectionLink, book, handed>>
    /\ UNCHANGED collectVars
    /\ UNCHANGED linkVars
    /\ UNCHANGED coverVars
    /\ UNCHANGED restVars

\* book.AddImage(tmp_path, ""): a file of the scratch directory is embedded; any
\* other source has to be retrieved by the writer, which can fail
Embeddings(imgs) ==
    {ok \in [1..Len(imgs) -> BOOLEAN] :
        \A k \in 1..Len(imgs) :
            /\ imgs[k].kind = "local" => ok[k]
            /\ imgs[k].orig = "/rel.png" /\ imgs[k].kind = "remote" => ~ok[k]}

\* the img tag with the container's reference as its src
Embedded(imgs) == [k \in 1..Len(imgs) |-> [imgs[k] EXCEPT !.kind = "book"]]

Section(pg, body) ==
    [URL |-> pg.URL, Order |-> pg.Order, link |-> pg.link,
     IsSubSection |-> pg.IsSubSection, body |-> body]

\* every page added as a section that becomes the anchor
AddToBookFlat(bk, anchor, sec) ==
    [book |-> Append(bk, [page |-> sec, children |-> <<>>]),
     anchor |-> Len(bk) + 1]

\* book.AddSubSection(SectionLink, ...) for a subsection (with the parent ""
\* the writer adds it at the top level), book.AddSection and SectionLink =
\* relativePath for a section
AddToBook(bk, anchor, sec) ==
    IF sec.IsSubSection /\ anchor # 0
    THEN [book |-> [bk EXCEPT ![anchor].children = Append(@, sec)],
          anchor |-> anchor]
    ELSE [book |-> Append(bk, [page |-> sec, children |-> <<>>]),
          anchor |-> IF sec.IsSubSection THEN anchor ELSE Len(bk) + 1]

\* one turn of "Add each page to the EPUB"
AddPage ==
    /\ phase = "assemble"
    /\ idx < Len(sortedPages)
    /\ LET u == sortedPages[idx + 1] IN
       IF u = <<>>
       THEN /\ phase' = "exited"
            /\ exit' = "panic: nil pointer dereference"
            /\ UNCHANGED <<idx, SectionLink, book, handed, pages>>
       ELSE \E ok \in Embeddings(pages[u].Content.imgs) :
            IF \E k \in DOMAIN ok : ~ok[k]
            THEN /\ phase' = "exited"
                 /\ exit' = "fatal: error processing image"
                 /\ UNCHANGED <<idx, SectionLink, book, handed, pages>>
            ELSE LET body == Embedded(pages[u].Content.imgs)
                     sec == Section(pages[u], body)
                     r == AddToBook(book, SectionLink, sec)
                 IN /\ pages' = [pages EXCEPT ![u].Content.imgs = body]
                    /\ book' = r.book
                    /\ SectionLink' = r.anchor
                    /\ handed' = Append(handed, sec)
                    /\ idx' = idx + 1
                    /\ UNCHANGED <<phase, exit>>
    /\ UNCHANGED <<sortedPages, task, writers, raced, overtaken>>
    /\ UNCHANGED linkVars
    /\ UNCHANGED coverVars
    /\ UNCHANGED restVars

\* the -cover flag: not given, or the URL of an image
NoCover == <<>>
Covers == {NoCover, <<"http://cover">>}

\* downloadImage(*coverImg, tempDir): it returns a file, or "" and an error
CoverDownloads(c) == IF c = NoCover THEN {FALSE} ELSE BOOLEAN

\* book.AddImage(output_path, ""): the file of the scratch directory is
\* embedded; after a failed download output_path is "", which the writer
\* cannot retrieve
AddCoverFails(downloaded) == ~downloaded

\* the walk has ended, and it was over one page at least
WalkEndedOnPage == idx = Len(sortedPages) /\ idx > 0

\* "for _, page := range sortedPages" has no page left
WalkEnded == idx = Len(sortedPages)

\* main after the walk: "Add cover image", book.Write(bookTitle + ".epub") and
\* the report of the total
WriteBook ==
    /\ phase = "assemble"
    /\ WalkEnded
    /\ \E downloaded \in CoverDownloads(coverImg) :
        IF coverImg = NoCover
        THEN /\ phase' = "done"
             /\ exit' = "ok"
             /\ UNCHANGED cover
        ELSE IF AddCoverFails(downloaded)
        THEN /\ phase' = "exited"
             /\ exit' = "fatal: error processing cover image"
             /\ UNCHANGED cover
        ELSE /\ phase' = "done"
             /\ exit' = "ok"
             /\ cover' = "set"
    /\ UNCHANGED coverImg
    /\ UNCHANGED restVars
    /\ UNCHANGED collectVars
    /\ UNCHANGED linkVars
    /\ UNCHANGED bookVars

----------------------------------------------------------------------------
(* Specifications                                                          *)

InitLinks == InitFrom(Profiles, BOOLEAN, {NoCover})

NextLinks == DiscoverFrom(Pages, NoTitles) \/ DiscoverFails

InitAuthor ==
    /\ phase = "author"
    /\ exit = "running"
    /\ config = GetGeneralConferenceConfig
    /\ sameHostOnly = TRUE
    /\ startPage = <<>>
    /\ links = <<>>
    /\ task = <<>>
    /\ pages = <<>>
    /\ writers = {}
    /\ raced = {}
    /\ overtaken = FALSE
    /\ sortedPages = <<>>
    /\ idx = 0
    /\ SectionLink = 0
    /\ book = <<>>
    /\ handed = <<>>
    /\ coverImg = NoCover
    /\ cover = "none"
    /\ module = config.name
    /\ \E t \in AuthorTables, a \in AuthorTexts :
         author = [table |-> t, text |-> a, out |-> <<>>]
    /\ visits = 0
    /\ bookTitle = ""
    /\ err = "nil"

InitBuiltIn ==
    /\ phase = "extract author"
    /\ exit = "running"
    /\ config \in BuiltIn
    /\ sameHostOnly = TRUE
    /\ startPage = <<>>
    /\ links = <<>>
    /\ task = <<>>
    /\ pages = <<>>
    /\ writers = {}
    /\ raced = {}
    /\ overtaken = FALSE
    /\ sortedPages = <<>>
    /\ idx = 0
    /\ SectionLink = 0
    /\ book = <<>>
    /\ handed = <<>>
    /\ coverImg = NoCover
    /\ cover = "none"
    /\ module = config.name
    /\ \E a \in NodeTexts :
         author = [table |-> AuthorReplacements(config), text |-> a, out |-> <<>>]
    /\ visits = 0
    /\ bookTitle = ""
    /\ err = "nil"

\* the author of two runs of the callback on one page, for the built-in
\* profiles
SpecBuiltIn == InitBuiltIn /\ [][ExtractAuthor]_vars

\* the author replacements alone, over every table and text of the bounds
SpecAuthor == InitAuthor /\ [][ApplyAuthor]_vars

\* link discovery alone, over every profile and start page of the bounds
SpecLinks == InitLinks /\ [][NextLinks]_vars

\* the start pages of whole runs: link i is one of the first i hrefs, which
\* gives every pattern of distinct and repeated links up to renaming
BookHrefs == <<<<"h.org", "/_contents", "/a">>, <<"h.org", "/b">>, <<"h.org", "/c">>,
               <<"h.org", "/d">>>>

BookPages(max) ==
    UNION {{p \in [1..n -> {BookHrefs[k] : k \in 1..n}] :
              \A i \in 1..n : \E k \in 1..i : p[i] = BookHrefs[k]} : n \in 0..max}

\* the start pages of the runs without images, and of the runs with images
TextPages == BookPages(MaxLinks)
ImagePages == BookPages(MaxImgLinks)
CoverPages == BookPages(MaxCoverLinks)

\* the profiles of whole runs: the built-in ones and one with a rewrite rule
\* that marks subsections, no fallback and one request at a time
BookProfiles ==
    BuiltIn \cup
    {[name |-> "custom", LinkFilter |-> <<"/illustrations">>,
      LinkReplace |-> <<[OldText |-> <<"/_contents">>, NewText |-> <<>>,
                         IsSubSection |-> TRUE]>>,
      SubSectionThreshold |-> 50, FallbackToBody |-> FALSE,
      Parallelism |-> 1, SkipExtensions |-> SkipExtensions]}

Init == InitFrom(BookProfiles, {TRUE}, {NoCover})

Next ==
    \/ DiscoverFrom(TextPages, NoTitles)
    \/ DiscoverFails
    \/ StartCollect
    \/ \E i \in 1..Len(task) : StartFetch(i)
    \/ \E i \in 1..Len(task) : FetchFails(i)
    \/ \E i \in 1..Len(task) : OnText(i)
    \/ \E i \in 1..Len(task) : BeginWrite(i)
    \/ \E i \in 1..Len(task) : EndWrite(i)
    \/ \E i \in 1..Len(task) : RaceLosesEntry(i)
    \/ \E i \in 1..Len(task) : RaceIsFatal(i)
    \/ CollectPagesReturns
    \/ SortPages
    \/ AddPage
    \/ WriteBook

\* a whole run of main, on documents without images
Spec == Init /\ [][Next]_vars

NextImages ==
    \/ DiscoverFrom(ImagePages, NoTitles)
    \/ DiscoverFails
    \/ StartCollect
    \/ \E i \in 1..Len(task) : StartFetch(i)
    \/ \E i \in 1..Len(task) : FetchFails(i)
    \/ \E i \in 1..Len(task) : OnImages(i)
    \/ \E i \in 1..Len(task) : BeginWrite(i)
    \/ \E i \in 1..Len(task) : EndWrite(i)
    \/ \E i \in 1..Len(task) : RaceLosesEntry(i)
    \/ \E i \in 1..Len(task) : RaceIsFatal(i)
    \/ CollectPagesReturns
    \/ SortPages
    \/ AddPage
    \/ WriteBook

\* a whole run of main, on documents that hold image nodes
SpecImages == Init /\ [][NextImages]_vars

NextDocs ==
    \/ DiscoverFrom(ImagePages, NoTitles)
    \/ DiscoverFails
    \/ StartCollect
    \/ \E i \in 1..Len(task) : StartFetch(i)
    \/ \E i \in 1..Len(task) : FetchFails(i)
    \/ \E i \in 1..Len(task) : OnDocs(i)
    \/ \E i \in 1..Len(task) : BeginWrite(i)
    \/ \E i \in 1..Len(task) : EndWrite(i)
    \/ \E i \in 1..Len(task) : RaceLosesEntry(i)
    \/ \E i \in 1..Len(task) : RaceIsFatal(i)
    \/ CollectPagesReturns
    \/ SortPages
    \/ AddPage
    \/ WriteBook

\* a whole run of main, on documents with image nodes anywhere
SpecDocs == Init /\ [][NextDocs]_vars

InitCover == InitFrom(BookProfiles, {TRUE}, Covers)

NextCover ==
    \/ DiscoverFrom(CoverPages, PageTitles)
    \/ DiscoverFails
    \/ StartCollect
    \/ \E i \in 1..Len(task) : StartFetch(i)
    \/ \E i \in 1..Len(task) : FetchFails(i)
    \/ \E i \in 1..Len(task) : OnText(i)
    \/ \E i \in 1..Len(task) : BeginWrite(i)
    \/ \E i \in 1..Len(task) : EndWrite(i)
    \/ \E i \in 1..Len(task) : RaceLosesEntry(i)
    \/ \E i \in 1..Len(task) : RaceIsFatal(i)
    \/ CollectPagesReturns
    \/ SortPages
    \/ AddPage
    \/ WriteBook

\* a whole run of main with or without the -cover flag
SpecCover == InitCover /\ [][NextCover]_vars

NextTitles ==
    \/ DiscoverFrom(CoverPages, NoTitles)
    \/ DiscoverFails
    \/ StartCollect
    \/ \E i \in 1..Len(task) : StartFetch(i)
    \/ \E i \in 1..Len(task) : FetchFails(i)
    \/ \E i \in 1..Len(task) : OnTitled(i)
    \/ \E i \in 1..Len(task) : BeginWrite(i)
    \/ \E i \in 1..Len(task) : EndWrite(i)
    \/ \E i \in 1..Len(task) : RaceLosesEntry(i)
    \/ \E i \in 1..Len(task) : RaceIsFatal(i)
    \/ CollectPagesReturns
    \/ SortPages
    \/ AddPage
    \/ WriteBook

\* a whole run of main over pages with a title and pages without one
SpecTitles == Init /\ [][NextTitles]_vars

\* the same runs when the process keeps running: main, the requests and the
\* callbacks are scheduled as long as one of them has a step to take
FairSpec == SpecCover /\ WF_vars(NextCover)

InitStart ==
    /\ phase = "start"
    /\ exit = "running"
    /\ config = NoConfig
    /\ sameHostOnly = TRUE
    /\ startPage = <<>>
    /\ links = <<>>
    /\ task = <<>>
    /\ pages = <<>>
    /\ writers = {}
    /\ raced = {}
    /\ overtaken = FALSE
    /\ sortedPages = <<>>
    /\ idx = 0
    /\ SectionLink = 0
    /\ book = <<>>
    /\ handed = <<>>
    /\ coverImg = NoCover
    /\ cover = "none"
    /\ module \in ModuleNames
    /\ author = NoAuthor
    /\ visits = 0
    /\ bookTitle = ""
    /\ err = "nil"

NextStart == Configure \/ DiscoverFrom(TextPages, NoTitles) \/ DiscoverFails

\* the start of main up to the end of link discovery, over the module names
SpecStart == InitStart /\ [][NextStart]_vars

----------------------------------------------------------------------------
(* Properties of link discovery (under SpecLinks)                          *)

\* the nodes of the start page that have an href, are on the start host when
\* that is asked for, have no skipped extension and do not hold the link filter
\* once rewritten, in document order
Qualifying ==
    SelectSeq(startPage,
              LAMBDA n : /\ Reaches(n, config, sameHostOnly)
                         /\ ~Contains(Rewrite(Absolute(n), config).URL,
                                      config.LinkFilter))

Min(a, b) == IF a < b THEN a ELSE b

\* C1: CollectLinks on a start page with K qualifying links returns exactly K
\* links, with the orders 0..K-1, in the document order of the nodes.
C1_ReturnsEveryQualifyingLink ==
    phase = "linked" =>
        /\ Len(links) = Len(Qualifying)
        /\ \A i \in 1..Len(links) :
            /\ links[i].Order = i - 1
            /\ links[i].URL = Rewrite(Absolute(Qualifying[i]), config).URL

RECURSIVE After(_, _, _)
\* the link after the first k rewrite rules
After(link, rules, k) ==
    IF k = 0 THEN link
    ELSE ReplaceAll(After(link, rules, k - 1), rules[k].OldText, rules[k].NewText)

\* some rule marked subsection changed the text it was given
MarkedRuleChanged(link, rules) ==
    \E k \in 1..Len(rules) :
        rules[k].IsSubSection /\ After(link, rules, k) # After(link, rules, k - 1)

\* C6: the subsection flag of a discovered link is set exactly when a rule
\* marked subsection=true itself changed the URL text, whatever the earlier
\* rules did to the URL.
C6_FlagIffMarkedRuleChanged ==
    phase = "linked" =>
        \A i \in 1..Len(links) :
            links[i].IsSubSection =
                MarkedRuleChanged(Absolute(Qualifying[i]), config.LinkReplace)

\* C7: no returned link holds the link filter in its rewritten URL, and the
\* links that were filtered out consume no order value: the orders of the
\* returned links are 0, 1, ... over the links that were not filtered.
C7_FilteredLinkNeverReturned ==
    phase = "linked" =>
        /\ \A i \in 1..Len(links) : ~Contains(links[i].URL, config.LinkFilter)
        /\ \A i \in 1..Len(links) : links[i].Order = i - 1
        /\ Len(links) = Min(Len(Qualifying), TestLimit)

\* C7: a link that holds the filter only once rewritten stands between two
\* links that are returned
C7_Witness ==
    /\ phase = "linked"
    /\ config.LinkFilter # <<>>
    /\ Len(startPage) = 3
    /\ Len(links) = 2
    /\ Reaches(startPage[2], config, sameHostOnly)
    /\ ~Contains(Absolute(startPage[2]), config.LinkFilter)
    /\ Contains(Rewrite(Absolute(startPage[2]), config).URL, config.LinkFilter)

\* the hostname an href resolves to against the start URL
ResolvedHost(href) == IF href[1] \in Hosts THEN href[1] ELSE StartHost

\* the nodes that are kept when hostnames are left out of account: they have
\* an href, no skipped extension, and do not hold the filter once rewritten
Survivors ==
    SelectSeq(startPage,
              LAMBDA n : /\ n # NoHref
                         /\ ToLower(PathExt(Absolute(n))) \notin config.SkipExtensions
                         /\ ~Contains(Rewrite(Absolute(n), config).URL,
                                      config.LinkFilter))

SameHostSurvivors ==
    SelectSeq(Survivors, LAMBDA n : ResolvedHost(n) = StartHost)

\* C20: with sameHostOnly every returned link comes from a node whose href
\* resolves to the hostname of the start URL; without it the hostname plays
\* no part: the returned links are the kept nodes of every host, in document
\* order, up to the number of links a run returns.
C20_HostnameCountsOnlyWhenAsked ==
    phase = "linked" =>
        LET from == IF sameHostOnly THEN SameHostSurvivors ELSE Survivors
        IN /\ Len(links) = Min(Len(from), TestLimit)
           /\ \A i \in 1..Len(links) :
                links[i].URL = Rewrite(Absolute(from[i]), config).URL

\* C20: a link to another host is returned when sameHostOnly is false
C20_Witness ==
    /\ phase = "linked"
    /\ ~sameHostOnly
    /\ \E i \in 1..Len(links) :
        /\ Hostname(links[i].URL) \notin {StartHost, ""}
        /\ ResolvedHost(Survivors[i]) # StartHost

----------------------------------------------------------------------------
(* Properties of whole runs (under Spec)                                   *)

PlainRun ==
    \A i \in 1..Len(task) :
        /\ task[i].pc \notin {"rejected", "dropped", "lost"}
        /\ task[i].pc \in {"extracted", "writing", "stored"}
            => task[i].entry.URL = links[i].URL

\* C3: a fetch error on a link leaves its URL out of the mapping and the run
\* goes on to a written book that holds every extracted page.
C3_FetchErrorOnlyDropsThatPage ==
    (PlainRun /\ \E i \in 1..Len(task) : task[i].pc = "failed") =>
        /\ \A i \in 1..Len(task) :
             task[i].pc = "failed" => links[i].URL \notin DOMAIN pages
        /\ exit \notin {"panic: index out of range", "panic: nil pointer dereference"}
        /\ phase = "done" =>
             \A u \in DOMAIN pages : \E a \in 1..Len(handed) : handed[a].URL = u

\* C4: no two callbacks are inside the insertion into the page mapping at the
\* same time.
C4_OneInsertionAtATime == Cardinality(writers) <= 1

\* C5: a stored entry is not a subsection exactly when the text length of its
\* cleaned body is below the threshold of the profile.
C5_FlagIffBelowThreshold ==
    \A u \in DOMAIN pages :
        (pages[u].IsSubSection = FALSE)
            <=> (pages[u].Content.textLen < config.SubSectionThreshold)

\* C5: a body of exactly the threshold is stored as a subsection although its
\* link is not marked, and a short body as a section although its link is
C5_Witness ==
    /\ \E u \in DOMAIN pages :
        /\ pages[u].Content.textLen = config.SubSectionThreshold
        /\ pages[u].IsSubSection
        /\ ~links[pages[u].link].IsSubSection
    /\ \E u \in DOMAIN pages :
        /\ ~pages[u].IsSubSection
        /\ links[pages[u].link].IsSubSection

\* the place in handed of the last section before place k, 0 when there is none
AnchorBefore(k) ==
    LET S == {j \in 1..(k - 1) : ~handed[j].IsSubSection}
    IN IF S = {} THEN 0 ELSE CHOOSE j \in S : \A m \in S : m <= j

\* the index in the book of the top-level section of a page
TopOf(pg) == CHOOSE t \in 1..Len(book) : book[t].page = pg

IsTop(pg) == \E t \in 1..Len(book) : book[t].page = pg

IsChildOf(pg, parent) ==
    \E t \in 1..Len(book) :
        /\ book[t].page = parent
        /\ \E c \in 1..Len(book[t].children) : book[t].children[c] = pg

\* C8: every page handed to the writer that is a section is a top-level
\* section and the anchor after it; every subsection is a child of the last
\* section handed before it (a top-level section when there is none) and
\* leaves the anchor as it is. So a section followed by N-1 subsections gives
\* one top-level section with N-1 children.
C8_SubsectionsUnderAnchor ==
    /\ \A k \in 1..Len(handed) :
        IF handed[k].IsSubSection /\ AnchorBefore(k) # 0
        THEN /\ IsChildOf(handed[k], handed[AnchorBefore(k)])
             /\ ~IsTop(handed[k])
        ELSE IsTop(handed[k])
    /\ LET a == AnchorBefore(Len(handed) + 1)
       IN SectionLink = IF a = 0 THEN 0 ELSE TopOf(handed[a])
    /\ (/\ Len(handed) >= 1
        /\ ~handed[1].IsSubSection
        /\ \A k \in 2..Len(handed) : handed[k].IsSubSection)
        => /\ Len(book) = 1
           /\ Len(book[1].children) = Len(handed) - 1

\* C8: a written book of a section followed by two subsections
C8_Witness ==
    /\ phase = "done"
    /\ Len(handed) = 3
    /\ ~handed[1].IsSubSection
    /\ handed[2].IsSubSection
    /\ handed[3].IsSubSection

\* the links whose URL is, token for token, the URL of the document of link i
MatchingLinks(i) == {j \in 1..Len(links) : links[j].URL = task[i].entry.URL}

\* C15: the order of an extracted page is the order of the first input link
\* whose URL equals the document's own URL, and 0 when no link has that URL;
\* a page whose URL matches no link is stored all the same, with the order 0.
C15_OrderByExactURLOrZero ==
    \A i \in 1..Len(task) :
        /\ task[i].pc \in {"extracted", "writing", "stored", "lost"} =>
            IF MatchingLinks(i) = {}
            THEN task[i].entry.Order = 0
            ELSE \E j \in MatchingLinks(i) :
                    /\ \A k \in MatchingLinks(i) : j <= k
                    /\ task[i].entry.Order = links[j].Order
        /\ task[i].pc = "stored" =>
            /\ task[i].entry.URL \in DOMAIN pages
            /\ pages[task[i].entry.URL].Order = task[i].entry.Order

\* C15: the document of the second link came from another URL after a
\* redirect and is stored with the order 0
C15_Witness ==
    /\ Len(task) >= 2
    /\ task[2].pc = "stored"
    /\ links[2].Order = 1
    /\ MatchingLinks(2) = {}
    /\ pages[task[2].entry.URL].Order = 0

\* C16: when main builds the dense array, the orders of the entries of the
\* page mapping are pairwise distinct and exactly 0..len(pages)-1, so the
\* placement stays inside the array and the walk finds a page in every slot.
C16_OrdersAreDense ==
    /\ phase = "collected" =>
        /\ \A u \in DOMAIN pages, v \in DOMAIN pages :
             pages[u].Order = pages[v].Order => u = v
        /\ {pages[u].Order : u \in DOMAIN pages} = 0..(Cardinality(DOMAIN pages) - 1)
    /\ phase = "assemble" => \A k \in 1..Len(sortedPages) : sortedPages[k] # <<>>
    /\ exit \notin {"panic: index out of range", "panic: nil pointer dereference"}

\* a run in which every link was requested, no request failed or was
\* redirected and no insertion was lost
OnlyDrops ==
    \A i \in 1..Len(task) :
        /\ task[i].pc \notin {"rejected", "failed", "lost"}
        /\ task[i].pc \in {"extracted", "writing", "stored", "dropped"}
            => task[i].entry.URL = links[i].URL

\* C17: a document is dropped only when the fallback is disabled, and then no
\* entry is stored for its URL; with the fallback enabled no document is
\* dropped; and a run goes on after a drop: it does not end on a panic and
\* the book that is written holds every page that was stored.
C17_DropLeavesTheRunGoing ==
    /\ \A i \in 1..Len(task) :
        task[i].pc = "dropped" =>
            /\ ~config.FallbackToBody
            /\ task[i].entry.URL \notin DOMAIN pages
    /\ (OnlyDrops /\ \E i \in 1..Len(task) : task[i].pc = "dropped") =>
        /\ exit \notin {"panic: index out of range", "panic: nil pointer dereference"}
        /\ phase = "done" =>
             \A u \in DOMAIN pages : \E a \in 1..Len(handed) : handed[a].URL = u

\* CollectPages has returned to main
Returned == phase \in {"collected", "assemble", "done"}

\* C14: when CollectPages has returned, every request and every callback has
\* ended and no callback is inside the insertion; and from then on no entry
\* is inserted into the page mapping and no callback takes a step.
C14_AssemblyAfterFullJoin ==
    /\ [](Returned =>
            /\ writers = {}
            /\ \A i \in 1..Len(task) : task[i].pc \in Terminal)
    /\ [][Returned => (DOMAIN pages' = DOMAIN pages /\ task' = task
                        /\ writers' = writers)]_vars

\* C14: main starts the walk over three pages whose insertions did not end in
\* the order of their links
C14_Witness ==
    /\ phase = "assemble"
    /\ idx = 0
    /\ overtaken
    /\ Cardinality(DOMAIN pages) = 3

\* the links whose document was fetched and whose body was matched or taken
\* by fallback: their callback reached the insertion
Extracted == {i \in 1..Len(task) : task[i].pc \in {"stored", "lost"}}

\* C23: when CollectPages has returned, the page mapping holds one entry for
\* every link that was fetched and extracted, under the URL of the fetched
\* document, it holds no other entry, and it holds none for a link whose
\* fetch failed.
C23_OneEntryPerExtractedLink ==
    Returned =>
        /\ \A i \in Extracted :
            /\ task[i].entry.URL \in DOMAIN pages
            /\ pages[task[i].entry.URL].link = i
        /\ \A u \in DOMAIN pages :
            \E i \in Extracted : task[i].entry.URL = u
        /\ \A i \in 1..Len(task) :
            task[i].pc = "failed" => links[i].URL \notin DOMAIN pages

----------------------------------------------------------------------------
(* Properties of runs on documents with images (under SpecImages)          *)

\* the entries the callbacks produced
Produced == {i \in 1..Len(task) : task[i].pc \in {"extracted", "writing", "stored", "lost"}}

\* the image nodes of the produced entries, as <<link, place>>
ProducedImgs ==
    {n \in (1..Len(task)) \X (1..MaxRunImgs + 1) :
        n[1] \in Produced /\ n[2] <= Len(task[n[1]].entry.Content.imgs)}

ImgOf(n) == task[n[1]].entry.Content.imgs[n[2]]

\* C9: an image node whose download succeeded is replaced by a node whose
\* source is the returned local path, no other node has that path, and no
\* body handed to the writer has the remote URL as a source any more.
C9_ImageRewrittenOnce ==
    /\ \A n \in ProducedImgs :
        task[n[1]].entry.Content.downloaded[n[2]] =>
            /\ ImgOf(n).kind = "local"
            /\ ImgOf(n).file = LocalPath(n[1], n[2])
            /\ \A m \in ProducedImgs : ImgOf(m).file = ImgOf(n).file => m = n
    /\ \A a \in 1..Len(handed) :
        \A k \in 1..Len(handed[a].body) :
            /\ handed[a].body[k].kind = "book"
            /\ task[handed[a].link].entry.Content.downloaded[k] =>
                /\ handed[a].body[k].file = LocalPath(handed[a].link, k)
                /\ \A m \in 1..Len(handed[a].body) :
                     handed[a].body[m].file = handed[a].body[k].file => m = k

\* C9: a written page with two image nodes of the same remote URL, the first
\* downloaded by the callback and the second not
C9_Witness ==
    /\ phase = "done"
    /\ \E a \in 1..Len(handed) :
        LET c == task[handed[a].link].entry.Content IN
        /\ Len(c.imgs) = 2
        /\ c.imgs[1].orig = c.imgs[2].orig
        /\ c.downloaded[1]
        /\ ~c.downloaded[2]

\* C10: an image whose download failed keeps its source, the entry of its page
\* is produced with the other images rewritten, and the run is not aborted
\* over it.
C10_ImageFailureIsIsolated ==
    /\ \A n \in ProducedImgs :
        IF task[n[1]].entry.Content.downloaded[n[2]]
        THEN ImgOf(n).kind = "local"
        ELSE ImgOf(n).kind = "remote" /\ ImgOf(n).file = NoFile
    /\ exit # "fatal: error processing image"

----------------------------------------------------------------------------
(* Properties of runs that go on (under FairSpec)                          *)

----------------------------------------------------------------------------
(* Properties of runs with the -cover flag (under SpecCover)               *)

\* C19: a run with a cover URL does not end on the cover: when the walk has
\* ended the container is written with every page that was added, with the
\* cover when its download succeeded and without it when it failed.
C19_CoverFailureSkipsCover ==
    coverImg # NoCover =>
        /\ exit # "fatal: error processing cover image"
        /\ phase = "done" =>
             /\ exit = "ok"
             /\ \A u \in DOMAIN pages : \E a \in 1..Len(handed) : handed[a].URL = u

\* C21: link discovery sends at most one request, and exactly one when it
\* succeeds; when the start URL does not parse or the request fails,
\* CollectLinks returns an error with no link and no title, and the process
\* has exited with no page queued, fetched, stored or added.
C21_FailedDiscoveryAborts ==
    /\ visits <= 1
    /\ (phase # "discover" /\ err = "nil") => visits = 1
    /\ err # "nil" =>
        /\ links = <<>>
        /\ bookTitle = ""
        /\ phase = "exited"
        /\ exit = "fatal: link collection failed"
        /\ task = <<>>
        /\ DOMAIN pages = {}
        /\ handed = <<>>
        /\ book = <<>>

\* C21: the one request of link discovery failed
C21_Witness ==
    /\ err = "failed to visit starting URL"
    /\ visits = 1
    /\ phase = "exited"

----------------------------------------------------------------------------
(* Properties of the page titles (under SpecTitles)                        *)

\* C22: every entry of the page mapping has a title that is not empty: the
\* text the title selector found on its page when there is one, and "Page N"
\* with N the order of the entry plus one when the selector found no text.
C22_StoredTitleNeverEmpty ==
    /\ \A i \in 1..Len(task) :
        task[i].pc \in {"extracted", "writing", "stored", "lost"} =>
            task[i].entry.Title =
                IF task[i].selected = ""
                THEN "Page " \o ToString(task[i].entry.Order + 1)
                ELSE task[i].selected
    /\ \A u \in DOMAIN pages :
        /\ pages[u].Title # ""
        /\ \E i \in 1..Len(task) :
            /\ task[i].pc = "stored"
            /\ task[i].entry.URL = u
            /\ task[i].entry.Order = pages[u].Order
            /\ task[i].entry.Title = pages[u].Title

\* C22: a stored page of order 1 without a title text, next to a stored page
\* with one
C22_Witness ==
    \E u, v \in DOMAIN pages :
        /\ pages[u].Order = 1
        /\ pages[u].Title = "Page 2"
        /\ pages[v].Title = "T"

----------------------------------------------------------------------------
(* Properties of the author replacements (under SpecAuthor)                *)

\* the places of the text where an old value of the table stands
Matches(text, table) ==
    {m \in (1..Len(text)) \X DOMAIN table :
        /\ m[1] + Len(m[2]) - 1 <= Len(text)
        /\ SubSeq(text, m[1], m[1] + Len(m[2]) - 1) = m[2]}

\* no new value of the table holds an old value, and no two matches of old
\* values share a character of the text
NoCollisions(text, table) ==
    /\ \A old \in DOMAIN table, o2 \in DOMAIN table : ~Contains(table[o2], old)
    /\ \A m \in Matches(text, table), n \in Matches(text, table) :
         m = n \/ m[1] + Len(m[2]) <= n[1] \/ n[1] + Len(n[2]) <= m[1]

\* C12 as stated: for a table and a text without old/new collisions and
\* without overlapping matches, applying the table to the result of applying
\* it yields that result again.
C12_IdempotentWithoutCollisions ==
    (Len(author.out) = 2 /\ NoCollisions(author.text, author.table))
        => author.out[2] = author.out[1]

\* C12 amended: when the result of applying the table holds no old value of
\* the table, applying the table to it, in any order of the pairs, yields
\* that result again.
C12_IdempotentOnSettledResult ==
    (/\ Len(author.out) = 2
     /\ \A old \in DOMAIN author.table : ~Contains(author.out[1], old))
        => author.out[2] = author.out[1]

\* C12: a text that a pair changed and the trim shortened, applied twice
C12_Witness ==
    /\ Len(author.out) = 2
    /\ \E old \in DOMAIN author.table : Contains(author.text, old)
    /\ \A old \in DOMAIN author.table : ~Contains(author.out[1], old)
    /\ Len(author.out[1]) + 2 < Len(author.text)
    /\ author.out[1] # <<>>
    /\ author.text[1] = " "

----------------------------------------------------------------------------
(* Properties of the authors of the built-in profiles (under SpecBuiltIn)  *)

\* C24: for a built-in profile and an author text that is not empty, two runs
\* of the author processing yield the same author, whatever the orders in
\* which the two runs iterate the replacement table.
C24_AuthorSameInEveryOrder ==
    (Len(author.out) = 2 /\ author.text # <<>>) => author.out[1] = author.out[2]

----------------------------------------------------------------------------
(* Properties of the start of main (under SpecStart)                       *)

\* the same letters, whatever their case
SameLetters(a, b) ==
    /\ Len(a) = Len(b)
    /\ \A k \in 1..Len(a) : a[k].text = b[k].text

\* the profile the program documents for a name in lower case
ProfileNamed(w) ==
    CASE w \in {Word(<<"con", "ference">>), Word(<<"general-", "con", "ference">>)} ->
            GetGeneralConferenceConfig
      [] w = Word(<<"scrip", "tures">>) -> GetScripturesConfig
      [] w = Word(<<"en", "sign">>) -> GetEnsignConfig

ValidNames ==
    AvailableModules \cup {Word(<<"general-", "con", "ference">>)}

----------------------------------------------------------------------------
(* Properties of runs on documents with images anywhere (under SpecDocs)   *)

\* C18: the image-fetch collaborator is invoked for the image nodes of the
\* cleaned body of the page, once each and in their order, and for no other
\* image node: none outside the body, none inside a removed element.
C18_DownloadsOnlyBodyImages ==
    \A i \in 1..Len(task) :
        task[i].pc \in {"extracted", "writing", "stored", "lost"} =>
            /\ Len(task[i].calls) = Len(task[i].doc.imgs)
            /\ \A c \in 1..Len(task[i].calls) :
                 /\ task[i].calls[c].part = "body"
                 /\ task[i].calls[c].src = task[i].doc.imgs[c].orig

====
